---------------------------- MODULE Spec2Model ----------------------------
(***************************************************************************)
(* A model of synapse-freeze-room (src/freeze_room/__init__.py): the       *)
(* third-party-rules callback check_event_allowed, the three handlers it   *)
(* dispatches to and the helpers of the admin-succession search.           *)
(*                                                                         *)
(* Python values are tagged records [py |-> <type name>, v |-> <payload>]  *)
(* so that isinstance(), `is True` and Python's == (under which True == 1) *)
(* can be told apart.  A dict is a function from its keys to tagged        *)
(* values, a list or a tuple a sequence of tagged values.  An event is a   *)
(* record with the fields type, sender, room_id, content and, for a state  *)
(* event only, state_key; get_dict() adds the signatures and the unsigned  *)
(* data to them.                                                           *)
(***************************************************************************)
EXTENDS Integers, Sequences, FiniteSets, TLC

VARIABLES
    config,         \* the FreezeRoomConfig the module was constructed with
    state_events,   \* the StateMap handed to check_event_allowed
    event,          \* the candidate event of the last call (NoEvent before it)
    result,         \* what the last call returned, sent and raised
    parent,         \* the call whose emitted event is now the candidate
    pc,             \* "idle" before the call, the line of the send a call
                    \* waits for while it runs, "done" after it, "handling"
                    \* while the host handles the events the call sent
    todo            \* the events the call sent that the host has yet to
                    \* handle, once it has handled the first of them

vars == <<config, state_events, event, result, parent, pc, todo>>

----------------------------------------------------------------------------
(* Python values *)

None == [py |-> "NoneType", v |-> "None"]

PyBool(b) == [py |-> "bool", v |-> b]

PyInt(i) == [py |-> "int", v |-> i]

PyStr(s) == [py |-> "str", v |-> s]

PyDict(f) == [py |-> "dict", v |-> f]

\* A frozendict (line 20), as the frozendict package defines it: a subclass
\* of dict without item assignment or deletion, whose copy() and deep copy
\* are frozendicts again.
PyFrozenDict(f) == [py |-> "frozendict", v |-> f]

PyList(q) == [py |-> "list", v |-> q]

PyTuple(q) == [py |-> "tuple", v |-> q]

EmptyDict == PyDict(<<>>)

\* isinstance(o, dict): true of a dict and of a frozendict, its subclass.
IsDict(o) == o.py \in {"dict", "frozendict"}

\* `o[k] = x` and `del o[k]` raise TypeError on a frozendict.
IsFrozenDict(o) == o.py = "frozendict"

\* isinstance(o, bool)
IsBool(o) == o.py = "bool"

\* `o is True` / `o is False`
IsTrue(o) == o.py = "bool" /\ o.v = TRUE

IsFalse(o) == o.py = "bool" /\ o.v = FALSE

\* The number a bool or an int stands for in a comparison (True == 1).
NumOf(o) == IF o.py = "bool" THEN (IF o.v THEN 1 ELSE 0) ELSE o.v

IsNum(o) == o.py \in {"bool", "int"}

\* A list or a tuple: what Python iterates over, strings and mappings aside.
IsSeq(o) == o.py \in {"list", "tuple"}

\* d.get(k, default) on a dict d
Get(d, k, default) == IF k \in DOMAIN d.v THEN d.v[k] ELSE default

Has(d, k) == k \in DOMAIN d.v

\* d with d[k] = x
SetItem(d, k, x) == PyDict([j \in (DOMAIN d.v) \cup {k} |-> IF j = k THEN x ELSE d.v[j]])

\* d after `del d[k]`
DelItem(d, k) == PyDict([j \in (DOMAIN d.v) \ {k} |-> d.v[j]])

\* A dict or a frozendict.
IsMapping(o) == o.py \in {"dict", "frozendict"}

\* Python's == on two values: numbers by value, mappings by their items
\* whatever their types, a list and a tuple never equal.
RECURSIVE PyEq(_, _)
PyEq(a, b) ==
    IF IsNum(a) /\ IsNum(b) THEN NumOf(a) = NumOf(b)
    ELSE IF IsMapping(a) /\ IsMapping(b)
        THEN /\ DOMAIN a.v = DOMAIN b.v
             /\ \A k \in DOMAIN a.v : PyEq(a.v[k], b.v[k])
    ELSE IF a.py # b.py THEN FALSE
    ELSE IF IsSeq(a)
        THEN /\ DOMAIN a.v = DOMAIN b.v
             /\ \A k \in DOMAIN a.v : PyEq(a.v[k], b.v[k])
    ELSE a.v = b.v

----------------------------------------------------------------------------
(* Constants of the source *)

FROZEN_STATE_TYPE == "org.matrix.room.frozen"

Member == "m.room.member"

JoinRules == "m.room.join_rules"

PowerLevels == "m.room.power_levels"

Message == "m.room.message"

INVITE == "invite"

JOIN == "join"

LEAVE == "leave"

\* The server name the module API qualifies local parts with.
server_name == "example.com"

RoomId == "!someroom:example.com"

----------------------------------------------------------------------------
(* User IDs.  UserID.from_string splits "@localpart:domain"; the table     *)
(* gives the split of every user ID the model uses.                        *)

Alice == "@alice:example.com"

Mod == "@mod:example.com"

NotHere == "@nothere:example.com"

EvilAlice == "@alice:evil.com"

UserIdUniverse == {Alice, Mod, NotHere, EvilAlice}

from_string(user_id) ==
    CASE user_id = Alice     -> [localpart |-> "alice",   domain |-> "example.com"]
      [] user_id = Mod       -> [localpart |-> "mod",     domain |-> "example.com"]
      [] user_id = NotHere   -> [localpart |-> "nothere", domain |-> "example.com"]
      [] user_id = EvilAlice -> [localpart |-> "alice",   domain |-> "evil.com"]

\* UserID(localpart, server_name).to_string()
get_qualified_user_id(localpart) ==
    CHOOSE u \in UserIdUniverse :
        from_string(u) = [localpart |-> localpart, domain |-> server_name]

\* Mutant: only the local parts are compared.
is_local_user_ByLocalpart(user_id) ==
    from_string(user_id).localpart =
        from_string(get_qualified_user_id(from_string(user_id).localpart)).localpart

is_local_user(user_id) ==
    user_id = get_qualified_user_id(from_string(user_id).localpart)

----------------------------------------------------------------------------
(* Events and the state map *)

NoEvent == [type |-> "none"]

is_state(e) == "state_key" \in DOMAIN e

\* EventBase.membership
membership(e) == e.content.v["membership"].v

\* Mutant: the dict form loses the event's content.
get_dict_NoContent(e) ==
    [k \in (DOMAIN e) \cup {"signatures", "unsigned"} |->
        IF k \in {"content", "signatures", "unsigned"} THEN EmptyDict ELSE e[k]]

\* EventBase.get_dict(): the fields of the event together with its
\* signatures and its unsigned data, which are empty for an event that was
\* built without them.
get_dict(e) ==
    [k \in (DOMAIN e) \cup {"signatures", "unsigned"} |->
        IF k \in {"signatures", "unsigned"} THEN EmptyDict ELSE e[k]]

\* state_events.get(key)
StateGet(st, key) == IF key \in DOMAIN st THEN st[key] ELSE None

StateEvent(type, state_key, sender, content) ==
    [type |-> type, state_key |-> state_key, sender |-> sender,
     room_id |-> RoomId, content |-> content]

NonStateEvent(type, sender, content) ==
    [type |-> type, sender |-> sender, room_id |-> RoomId, content |-> content]

----------------------------------------------------------------------------
(* What one call of check_event_allowed produces: the returned pair        *)
(* (allowed, replacement), the dicts passed to                             *)
(* create_and_send_event_into_room in call order, and the exception that   *)
(* ended the call, if one did.                                             *)

NoException == "no"

Ret(allowed, replacement, sent) ==
    [allowed |-> allowed, replacement |-> replacement, sent |-> sent,
     raised |-> NoException]

Raise(exc, sent) ==
    [allowed |-> FALSE, replacement |-> None, sent |-> sent, raised |-> exc]

NoResult == Raise("not called", <<>>)

\* The argument of create_and_send_event_into_room: a state event with the
\* empty state key, sent by the sender of the event under check.
SendDict(e, type, content) ==
    [room_id |-> e.room_id, sender |-> e.sender, type |-> type,
     content |-> content, state_key |-> ""]

----------------------------------------------------------------------------
(* unfreeze(): a deep copy that turns every mapping into a plain dict and  *)
(* every other iterable but a string into a list.                          *)

RECURSIVE unfreeze(_)
unfreeze(o) ==
    IF IsMapping(o)
        THEN PyDict([k \in DOMAIN o.v |-> unfreeze(o.v[k])])
    ELSE IF o.py \in {"bytes", "str"} THEN o
    ELSE IF IsSeq(o) THEN PyList([i \in DOMAIN o.v |-> unfreeze(o.v[i])])
    ELSE o

----------------------------------------------------------------------------
(* _on_frozen_state_change *)

\* Mutant: any number passes for a bool (isinstance(frozen, int)).
HasValidFrozen_AnyNumber(e) == IsNum(Get(e.content, "frozen", None))

\* Lines 100-103: the frozen value of a marker candidate is a bool.
HasValidFrozen(e) == IsBool(Get(e.content, "frozen", None))

\* Lines 107-110: an unfreeze by a sender whose domain is blacklisted.
IsBlacklistedUnfreeze(e, cfg) ==
    /\ IsFalse(Get(e.content, "frozen", None))
    /\ from_string(e.sender).domain \in cfg.unfreeze_blacklist

\* Mutant: only a repeated freeze is taken for a no-op.
IsNoop_OnlyWhenFrozen(e, st) ==
    LET current_frozen_state == StateGet(st, <<FROZEN_STATE_TYPE, "">>)
    IN  /\ current_frozen_state # None
        /\ IsTrue(Get(e.content, "frozen", None))
        /\ PyEq(Get(current_frozen_state.content, "frozen", None),
                Get(e.content, "frozen", None))

\* Lines 113-120: the room's marker already carries the requested value.
IsNoop(e, st) ==
    LET current_frozen_state == StateGet(st, <<FROZEN_STATE_TYPE, "">>)
    IN  /\ current_frozen_state # None
        /\ PyEq(Get(current_frozen_state.content, "frozen", None),
                Get(e.content, "frozen", None))

\* Mutant: a room without a join rules event is left alone.
RevertsJoinRules_OnlyPublic(e, st) ==
    LET current_join_rules == StateGet(st, <<JoinRules, "">>)
    IN  /\ IsTrue(Get(e.content, "frozen", None))
        /\ current_join_rules # None
        /\ PyEq(current_join_rules.content.v["join_rule"], PyStr("public"))

\* Lines 134-137: freezing a room whose join rule is public or unset.
RevertsJoinRules(e, st) ==
    LET current_join_rules == StateGet(st, <<JoinRules, "">>)
    IN  /\ IsTrue(Get(e.content, "frozen", None))
        /\ \/ current_join_rules = None
           \/ PyEq(current_join_rules.content.v["join_rule"], PyStr("public"))

\* Line 136 subscripts content["join_rule"]: a KeyError when it is missing.
JoinRulesRaises(e, st) ==
    LET current_join_rules == StateGet(st, <<JoinRules, "">>)
    IN  /\ IsTrue(Get(e.content, "frozen", None))
        /\ current_join_rules # None
        /\ ~Has(current_join_rules.content, "join_rule")

\* Lines 138-146.
JoinRulesSent(e, st) ==
    IF RevertsJoinRules(e, st)
        THEN <<SendDict(e, JoinRules, PyDict([join_rule |-> PyStr("invite")]))>>
        ELSE <<>>

\* Mutant: users_default is not reset.
UnfreezePowerLevels_KeepsDefault(power_levels_content, sender) ==
    LET users == Get(power_levels_content, "users", EmptyDict)
    IN  SetItem(power_levels_content, "users", SetItem(users, sender, PyInt(100)))

\* Lines 157-159: the power levels of an unfrozen room.
UnfreezePowerLevels(power_levels_content, sender) ==
    LET users == Get(power_levels_content, "users", EmptyDict)
    IN  SetItem(SetItem(power_levels_content, "users",
                        SetItem(users, sender, PyInt(100))),
                "users_default", PyInt(0))

\* Mutant: entries above 100 are kept too (level >= 100).
FreezePowerLevels_KeepsAbove(power_levels_content) ==
    LET old == power_levels_content.v["users"]
        users == PyDict([user \in {u \in DOMAIN old.v : old.v[u].v >= 100}
                            |-> old.v[user]])
    IN  SetItem(SetItem(power_levels_content, "users_default", PyInt(100)),
                "users", users)

\* Lines 163-171: the power levels of a frozen room.
FreezePowerLevels(power_levels_content) ==
    LET old == power_levels_content.v["users"]
        users == PyDict([user \in {u \in DOMAIN old.v : PyEq(old.v[u], PyInt(100))}
                            |-> old.v[user]])
    IN  SetItem(SetItem(power_levels_content, "users_default", PyInt(100)),
                "users", users)

\* Lines 148-183: the rest of a transition once the join rules have been
\* dealt with, `sent` being what the call has sent by then.  The power
\* levels are read from the state map as it is at that moment.
PowerLevelsStep(e, st, sent) ==
    LET frozen == Get(e.content, "frozen", None)
        current_power_levels == StateGet(st, <<PowerLevels, "">>)
        power_levels_content == unfreeze(current_power_levels.content)
    IN  IF current_power_levels = None THEN Raise("AttributeError", sent)
        ELSE IF ~frozen.v
            THEN IF ~IsDict(Get(power_levels_content, "users", EmptyDict))
                    THEN Raise("TypeError", sent)
                    ELSE Ret(TRUE, get_dict(e),
                             Append(sent, SendDict(e, PowerLevels,
                                 UnfreezePowerLevels(power_levels_content, e.sender))))
        ELSE IF ~Has(power_levels_content, "users") THEN Raise("KeyError", sent)
        ELSE IF ~IsDict(power_levels_content.v["users"])
            THEN Raise("AttributeError", sent)
        ELSE Ret(TRUE, get_dict(e),
                 Append(sent, SendDict(e, PowerLevels,
                                       FreezePowerLevels(power_levels_content))))

\* Lines 129-183: a real transition requested by a local user, on a state
\* map that stays as it is for the whole call.
Transition(e, st) ==
    IF JoinRulesRaises(e, st) THEN Raise("KeyError", <<>>)
    ELSE PowerLevelsStep(e, st, JoinRulesSent(e, st))

on_frozen_state_change(e, st, cfg) ==
    IF ~HasValidFrozen(e) THEN Ret(FALSE, None, <<>>)
    ELSE IF IsBlacklistedUnfreeze(e, cfg) THEN Ret(FALSE, None, <<>>)
    ELSE IF IsNoop(e, st) THEN Ret(TRUE, None, <<>>)
    ELSE IF ~is_local_user(e.sender) THEN Ret(TRUE, None, <<>>)
    ELSE Transition(e, st)

----------------------------------------------------------------------------
(* _on_event_when_frozen *)

\* Mutant: any leave passes, a kick included.
IsSelfLeave_AnyLeave(e) ==
    /\ e.type = Member
    /\ membership(e) = LEAVE

\* Lines 207-211: a user leaving on their own; a kick has another state key.
IsSelfLeave(e) ==
    /\ e.type = Member
    /\ membership(e) = LEAVE
    /\ e.sender = e.state_key

\* Mutant: the current users_default is not forced to 0.
OldContent_DefaultKept(current_power_levels) == current_power_levels.content

\* Lines 221-222: the copy of a dict takes the assignment; the copy of a
\* frozendict is a frozendict and the assignment raises TypeError.
OldContent(current_power_levels) ==
    IF IsFrozenDict(current_power_levels.content)
        THEN Raise("TypeError", <<>>)
        ELSE SetItem(current_power_levels.content, "users_default", PyInt(0))

\* Line 224.
NewContent(e) == unfreeze(e.content)

\* Mutant: the sender's level is read from users_default.
SenderPl_FromDefault(e) == Get(NewContent(e), "users_default", PyInt(0))

\* Line 225.
SenderPl(e) ==
    Get(Get(NewContent(e), "users", EmptyDict), e.sender, PyInt(0))

\* Mutant: the sender's own level is not looked at.
IsUnfreezeUpdate_AnySender(e, current_power_levels) ==
    PyEq(DelItem(NewContent(e), "users"),
         DelItem(OldContent(current_power_levels), "users"))

\* Lines 229-232: the candidate is the power levels update of an unfreeze.
IsUnfreezeUpdate(e, current_power_levels) ==
    /\ PyEq(DelItem(NewContent(e), "users"),
            DelItem(OldContent(current_power_levels), "users"))
    /\ PyEq(SenderPl(e), PyInt(100))

on_event_when_frozen(e, st) ==
    LET current_power_levels == StateGet(st, <<PowerLevels, "">>)
    IN  IF IsSelfLeave(e) THEN Ret(TRUE, None, <<>>)
        ELSE IF e.type = PowerLevels /\ current_power_levels # None
            THEN IF IsFrozenDict(current_power_levels.content)
                    THEN Raise("TypeError", <<>>)
                 ELSE IF ~IsDict(Get(NewContent(e), "users", EmptyDict))
                    THEN Raise("AttributeError", <<>>)
                 ELSE IF ~Has(OldContent(current_power_levels), "users")
                    THEN Raise("KeyError", <<>>)
                 ELSE IF ~Has(NewContent(e), "users")
                    THEN Raise("KeyError", <<>>)
                 ELSE IF IsUnfreezeUpdate(e, current_power_levels)
                    THEN Ret(TRUE, None, <<>>)
                 ELSE Ret(FALSE, None, <<>>)
        ELSE Ret(FALSE, None, <<>>)

----------------------------------------------------------------------------
(* _on_room_leave and its helpers *)

\* Lines 404-421: the power levels content, or None when it cannot be used:
\* without a power levels event, or with a content or a users value for
\* which isinstance(..., dict) is false.
get_power_levels_content_from_state(st) ==
    LET power_level_state_event == StateGet(st, <<PowerLevels, "">>)
    IN  IF power_level_state_event = None THEN None
        ELSE IF \/ ~IsDict(power_level_state_event.content)
                \/ ~Has(power_level_state_event.content, "users")
                \/ ~IsDict(power_level_state_event.content.v["users"])
            THEN None
        ELSE power_level_state_event.content

\* Lines 366-370.
AdminUsers(power_level_content) ==
    LET users == power_level_content.v["users"].v
    IN  {user \in DOMAIN users : users[user].v >= 100}

\* Mutant: any user in the room counts, administrator or not.
OtherAdminInRoom_AnyMember(e, power_level_content, st) ==
    \E key \in DOMAIN st :
        /\ key[1] = Member
        /\ membership(st[key]) \in {JOIN, INVITE}
        /\ key[2] # st[key].sender

\* Lines 376-382.  Inside the generator expression the loop variable is
\* named `event` too, so `event.sender` there is the sender of the
\* membership event found in the state, not the sender of the leave.
OtherAdminInRoom(e, power_level_content, st) ==
    \E key \in DOMAIN st :
        /\ key[1] = Member
        /\ membership(st[key]) \in {JOIN, INVITE}
        /\ key[2] \in AdminUsers(power_level_content)
        /\ key[2] # st[key].sender

is_last_admin_leaving(e, power_level_content, st) ==
    IF e.sender \notin AdminUsers(power_level_content) THEN FALSE
    ELSE IF OtherAdminInRoom(e, power_level_content, st) THEN FALSE
    ELSE TRUE

\* Lines 492-501; "None" stands for the None of a user without a
\* membership event.
get_membership(user_id, st) ==
    IF <<Member, user_id>> \in DOMAIN st
        THEN membership(st[<<Member, user_id>>])
        ELSE "None"

MaxLevel(users_dict) ==
    CHOOSE m \in {users_dict[u].v : u \in DOMAIN users_dict} :
        \A u \in DOMAIN users_dict : users_dict[u].v <= m

\* What _get_users_with_highest_nondefault_pl comes to: the users of the
\* tuple it returns, held as a set, or the exception it raises.
Found(users) == [users |-> users, raised |-> NoException]

Failed(exc) == [users |-> {}, raised |-> exc]

\* Lines 453-489: the loop over the tiers of users_dict_copy.  The deletion
\* of a tier nobody of which is in the room (lines 488-489) raises TypeError
\* on a frozendict.
RECURSIVE HighestTier(_, _, _)
HighestTier(users_dict_copy, users_default_pl, st) ==
    IF DOMAIN users_dict_copy.v = {} THEN Found({})
    ELSE LET max_pl == MaxLevel(users_dict_copy.v)
             users_with_max_pl ==
                 {u \in DOMAIN users_dict_copy.v : users_dict_copy.v[u].v = max_pl}
             users_to_promote ==
                 {u \in users_with_max_pl : get_membership(u, st) \in {JOIN, INVITE}}
         IN  IF max_pl <= users_default_pl THEN Found({})
             ELSE IF users_to_promote # {} THEN Found(users_to_promote)
             ELSE IF IsFrozenDict(users_dict_copy) THEN Failed("TypeError")
             ELSE HighestTier(
                     PyDict([u \in (DOMAIN users_dict_copy.v) \ users_with_max_pl
                                |-> users_dict_copy.v[u]]),
                     users_default_pl, st)

\* Lines 424-489.  The copy of a frozendict (line 448) is a frozendict, and
\* the deletion of ignore_user from it (lines 450-451) raises TypeError.
get_users_with_highest_nondefault_pl(users_dict, users_default_pl, st, ignore_user) ==
    IF ignore_user \notin DOMAIN users_dict.v
        THEN HighestTier(users_dict, users_default_pl, st)
    ELSE IF IsFrozenDict(users_dict) THEN Failed("TypeError")
    ELSE HighestTier(DelItem(users_dict, ignore_user), users_default_pl, st)

\* Mutant: the promoted users get 100, whatever the leaver held.
PromotedContent_Hundred(users_to_promote, pl_content, e) ==
    LET users == pl_content.v["users"]
        promoted == [u \in (DOMAIN users.v) \cup users_to_promote |->
                        IF u \in users_to_promote THEN PyInt(100)
                                                   ELSE users.v[u]]
    IN  [pl_content EXCEPT !.v["users"] = [users EXCEPT !.v = promoted]]

\* Lines 314-316: the content _promote_to_admins sends, a deep copy of the
\* current one whose users map took the assignments.  The deep copy of a
\* frozendict is a frozendict, that of a dict a dict: the content and its
\* users map keep their types.
PromotedContent(users_to_promote, pl_content, e) ==
    LET users == pl_content.v["users"]
        promoted == [u \in (DOMAIN users.v) \cup users_to_promote |->
                        IF u \in users_to_promote THEN users.v[e.sender]
                                                   ELSE users.v[u]]
    IN  [pl_content EXCEPT !.v["users"] = [users EXCEPT !.v = promoted]]

\* Mutant: a room whose power levels cannot be used is frozen on a leave.
on_room_leave_FreezesUnreadable(e, st, cfg) ==
    LET pl_content == get_power_levels_content_from_state(st)
        found ==
            get_users_with_highest_nondefault_pl(
                pl_content.v["users"],
                Get(pl_content, "users_default", PyInt(0)).v,
                st, e.state_key)
        marker == SendDict(e, FROZEN_STATE_TYPE, PyDict([frozen |-> PyBool(TRUE)]))
    IN  IF pl_content = None THEN Ret(TRUE, None, <<marker>>)
        ELSE IF ~is_last_admin_leaving(e, pl_content, st) THEN Ret(TRUE, None, <<>>)
        ELSE IF ~cfg.promote_moderators THEN Ret(TRUE, None, <<marker>>)
        ELSE IF found.raised # NoException THEN Raise(found.raised, <<>>)
        ELSE IF found.users = {} THEN Ret(TRUE, None, <<marker>>)
        ELSE IF IsFrozenDict(pl_content.v["users"]) THEN Raise("TypeError", <<>>)
        ELSE Ret(TRUE, None,
                 <<SendDict(e, PowerLevels,
                            PromotedContent(found.users, pl_content, e))>>)

\* Lines 84-93 and 237-295: a leave in a room that is not frozen.  What
\* _on_room_leave sends is sent and what it raises is raised; when it is
\* through, the call returns (True, None).  The assignment of line 316
\* raises TypeError when the users map of the deep copy is a frozendict.
on_room_leave(e, st, cfg) ==
    LET pl_content == get_power_levels_content_from_state(st)
        found ==
            get_users_with_highest_nondefault_pl(
                pl_content.v["users"],
                Get(pl_content, "users_default", PyInt(0)).v,
                st, e.state_key)
        marker == SendDict(e, FROZEN_STATE_TYPE, PyDict([frozen |-> PyBool(TRUE)]))
    IN  IF pl_content = None THEN Ret(TRUE, None, <<>>)
        ELSE IF ~is_last_admin_leaving(e, pl_content, st) THEN Ret(TRUE, None, <<>>)
        ELSE IF ~cfg.promote_moderators THEN Ret(TRUE, None, <<marker>>)
        ELSE IF found.raised # NoException THEN Raise(found.raised, <<>>)
        ELSE IF found.users = {} THEN Ret(TRUE, None, <<marker>>)
        ELSE IF IsFrozenDict(pl_content.v["users"]) THEN Raise("TypeError", <<>>)
        ELSE Ret(TRUE, None,
                 <<SendDict(e, PowerLevels,
                            PromotedContent(found.users, pl_content, e))>>)

----------------------------------------------------------------------------
(* check_event_allowed *)

\* Mutant: a room with a marker is frozen, whatever the marker says.
IsFrozen_AnyMarker(st) == StateGet(st, <<FROZEN_STATE_TYPE, "">>) # None

\* Lines 80-81: the room's marker says frozen.
IsFrozen(st) ==
    LET frozen_state == StateGet(st, <<FROZEN_STATE_TYPE, "">>)
    IN  /\ frozen_state # None
        /\ IsTrue(Get(frozen_state.content, "frozen", PyBool(FALSE)))

\* Mutant: a power levels event runs the resolver too.
IsLeave_OrPowerLevels(e) ==
    /\ is_state(e)
    /\ \/ e.type = PowerLevels
       \/ e.type = Member /\ membership(e) = LEAVE

\* Lines 86-90.
IsLeave(e) ==
    /\ e.type = Member
    /\ membership(e) = LEAVE
    /\ is_state(e)

check_event_allowed(e, st, cfg) ==
    IF e.type = FROZEN_STATE_TYPE /\ is_state(e)
        THEN on_frozen_state_change(e, st, cfg)
    ELSE IF IsFrozen(st) THEN on_event_when_frozen(e, st)
    ELSE IF IsLeave(e) THEN on_room_leave(e, st, cfg)
    ELSE Ret(TRUE, None, <<>>)

----------------------------------------------------------------------------
(* The course of a call.  check_event_allowed is a coroutine: at every     *)
(* `await self._api.create_and_send_event_into_room(...)` it hands the     *)
(* dict to the host and waits, and whatever else the host runs meanwhile   *)
(* runs before the call goes on.  A call that waits has returned nothing   *)
(* yet; what it has sent so far is known.                                  *)

Suspended == "suspended"

Pending(sent) ==
    [allowed |-> FALSE, replacement |-> None, sent |-> sent, raised |-> Suspended]

\* The four places where a call waits.
AtJoinRulesSend == "line 138"

AtPowerLevelsSend == "line 173"

AtMarkerSend == "line 285"

AtPromotionSend == "line 318"

Awaits == {AtJoinRulesSend, AtPowerLevelsSend, AtMarkerSend, AtPromotionSend}

\* The place where the call on event e waits when it sends dict d: a marker
\* is handled by _on_frozen_state_change, anything else that sends is a
\* leave handled by _on_room_leave.
AwaitOf(e, d) ==
    IF e.type = FROZEN_STATE_TYPE /\ is_state(e)
        THEN (IF d.type = JoinRules THEN AtJoinRulesSend ELSE AtPowerLevelsSend)
        ELSE (IF d.type = FROZEN_STATE_TYPE THEN AtMarkerSend ELSE AtPromotionSend)

\* The call on event e runs from its start to its first send, or to its end
\* when it sends nothing.
Begin(e, st, cfg) ==
    LET r == check_event_allowed(e, st, cfg)
    IN  IF r.sent = <<>>
            THEN [pc |-> "done", result |-> r]
            ELSE [pc |-> AwaitOf(e, r.sent[1]), result |-> Pending(<<r.sent[1]>>)]

\* The call on event e, which waits at `at` and has sent `sent`, runs on to
\* its next send or to its end.  After the join rules (line 138) it reads
\* the power levels from the state map as it is by then (lines 148-152);
\* after the power levels (line 173) it returns the candidate's dict (line
\* 183); after the resolver's send it returns (True, None) (line 93).
Continue(at, e, st, sent) ==
    IF at = AtJoinRulesSend
        THEN LET r == PowerLevelsStep(e, st, sent)
             IN  IF r.raised # NoException
                    THEN [pc |-> "done", result |-> r]
                    ELSE [pc |-> AtPowerLevelsSend, result |-> Pending(r.sent)]
    ELSE IF at = AtPowerLevelsSend
        THEN [pc |-> "done", result |-> Ret(TRUE, get_dict(e), sent)]
    ELSE [pc |-> "done", result |-> Ret(TRUE, None, sent)]

----------------------------------------------------------------------------
(* The bounded inputs: configurations, room states and candidate events.   *)

\* How many users of UserOrder may hold an entry in the room's power levels.
NumUsers == 2

UserOrder == <<Alice, Mod, NotHere, EvilAlice>>

RoomUsers == {UserOrder[i] : i \in 1..(IF NumUsers < 4 THEN NumUsers ELSE 4)}

\* Who sends the candidates: a local user and a remote one with the same
\* local part.
Senders == {Alice, EvilAlice}

\* Each user's domain is blacklisted under one configuration and not under
\* the other.
Blacklists == {{"evil.com"}, {"example.com"}}

Levels == {50, 100, 150}

\* Every dict over a subset of `keys` with values in `vals`.
Dicts(keys, vals) ==
    UNION {{PyDict(f) : f \in [K -> vals]} : K \in SUBSET keys}

\* A users entry that is not a mapping.
Bogus == PyStr("bogus")

\* Power levels contents: users is missing, not a mapping, or a map;
\* users_default is missing or one of `defaults`; ban stands for the fields
\* the module passes through.
PLContents(users, levels, defaults, bans) ==
    {PyDict(u @@ d @@ b) :
        u \in {<<>>} \cup {[users |-> m] :
                    m \in {Bogus} \cup Dicts(users, {PyInt(l) : l \in levels})},
        d \in {<<>>} \cup {[users_default |-> PyInt(x)] : x \in defaults},
        b \in {[ban |-> PyInt(x)] : x \in bans}}

\* Power levels contents with a field that holds an array, as a list or as
\* a tuple; Alice is the administrator.
ArrayContents(kinds) ==
    {PyDict([users |-> PyDict((Alice :> PyInt(100))), users_default |-> PyInt(d),
             ban |-> PyInt(50),
             extra |-> [py |-> k, v |-> <<PyInt(1), PyInt(2)>>]]) :
        d \in {0, 100}, k \in kinds}

\* Power levels contents as a host with frozen events holds them: a
\* frozendict whose users map is a frozendict; Alice is the administrator.
ImmutableContents ==
    {PyFrozenDict([users |-> PyFrozenDict((Alice :> PyInt(100))),
                   users_default |-> PyInt(d), ban |-> PyInt(50)]) : d \in {0, 100}}

FrozenContents ==
    {EmptyDict} \cup
    {PyDict([frozen |-> x]) :
        x \in {PyBool(TRUE), PyBool(FALSE), PyInt(1), PyStr("foo")}}

MemberContent(m) == PyDict([membership |-> PyStr(m)])

\* The state map holding the events of S, one per (type, state key).
StateMap(S) ==
    [k \in {<<ev.type, ev.state_key>> : ev \in S} |->
        CHOOSE ev \in S : <<ev.type, ev.state_key>> = k]

\* Room states: each of these sets holds the ways one state entry can be.
MarkerStates ==
    {{}} \cup {{StateEvent(FROZEN_STATE_TYPE, "", Alice, PyDict([frozen |-> x]))} :
                x \in {PyBool(TRUE), PyBool(FALSE), PyInt(1)}}

JoinRulesStates ==
    {{}} \cup {{StateEvent(JoinRules, "", Alice, c)} :
                c \in {EmptyDict, PyDict([join_rule |-> PyStr("public")]),
                       PyDict([join_rule |-> PyStr("invite")])}}

PowerLevelsStates ==
    {{}} \cup {{StateEvent(PowerLevels, "", Alice, c)} :
                c \in PLContents(RoomUsers, Levels, {0, 100}, {50})
                       \cup ArrayContents({"list"}) \cup ImmutableContents}

\* Every room user has joined.
JoinedMembers == {StateEvent(Member, u, u, MemberContent(JOIN)) : u \in RoomUsers}

Snapshots ==
    {StateMap(m \cup j \cup p \cup JoinedMembers) :
        m \in MarkerStates, j \in JoinRulesStates, p \in PowerLevelsStates}

\* Candidates.  A frozen-typed event with no state key, the empty one or
\* another one.
MarkerCandidates ==
    {StateEvent(FROZEN_STATE_TYPE, k, s, c) :
        k \in {"", Mod}, s \in Senders, c \in FrozenContents}
    \cup {NonStateEvent(FROZEN_STATE_TYPE, s, c) : s \in Senders, c \in FrozenContents}

\* Membership events are state events.
MemberCandidates ==
    {StateEvent(Member, k, s, MemberContent(m)) :
        k \in {Alice, Mod, EvilAlice}, s \in Senders, m \in {LEAVE, JOIN, INVITE}}

PowerLevelsCandidates ==
    {StateEvent(PowerLevels, "", s, c) :
        s \in Senders,
        c \in PLContents({Alice, EvilAlice}, {50, 100}, {0, 100}, {50, 60})
               \cup ArrayContents({"list", "tuple"}) \cup ImmutableContents}

OtherCandidates ==
    {StateEvent(JoinRules, "", s, PyDict([join_rule |-> PyStr("public")])) : s \in Senders}
    \cup {NonStateEvent(Message, s, PyDict([body |-> PyStr("hello world")])) : s \in Senders}

Candidates ==
    MarkerCandidates \cup MemberCandidates \cup PowerLevelsCandidates \cup OtherCandidates

----------------------------------------------------------------------------
(* The state machine: one call of check_event_allowed on a room state, and *)
(* the events it sent submitted to check_event_allowed in their turn.      *)

NoCall == [event |-> NoEvent, result |-> NoResult]

Init ==
    /\ config \in {[unfreeze_blacklist |-> b, promote_moderators |-> FALSE] :
                        b \in Blacklists}
    /\ state_events \in Snapshots
    /\ event = NoEvent
    /\ result = NoResult
    /\ parent = NoCall
    /\ pc = "idle"
    /\ todo = <<>>

\* The host calls the callback with a candidate and the room's state: the
\* call runs to its first send or to its end.
CheckEventAllowed ==
    /\ pc = "idle"
    /\ \E e \in Candidates :
        /\ event' = e
        /\ result' = Begin(e, state_events, config).result
        /\ pc' = Begin(e, state_events, config).pc
    /\ UNCHANGED <<todo, config, state_events, parent>>

\* The send the call waits for completes and the call runs on.
Resume ==
    /\ pc \in Awaits
    /\ result' = Continue(pc, event, state_events, result.sent).result
    /\ pc' = Continue(pc, event, state_events, result.sent).pc
    /\ UNCHANGED <<todo, config, state_events, event, parent>>

\* The content c with user u made an administrator.
RaisedToAdmin(c, u) == SetItem(c, "users", SetItem(c.v["users"], u, PyInt(100)))

\* While the call waits for the join rules to be sent, the state map it was
\* handed changes: its power levels event is replaced by one that makes
\* another user an administrator.
PowerLevelsReplaced ==
    /\ pc = AtJoinRulesSend
    /\ <<PowerLevels, "">> \in DOMAIN state_events
    /\ get_power_levels_content_from_state(state_events) # None
    /\ state_events' =
         [state_events EXCEPT ![<<PowerLevels, "">>].content = RaisedToAdmin(@, Mod)]
    /\ state_events' # state_events
    /\ UNCHANGED <<todo, config, event, result, parent, pc>>

\* An event the call sent is itself checked against the same room state,
\* which does not hold the event yet.
ResubmitSent ==
    /\ pc = "done"
    /\ parent = NoCall
    /\ \E i \in DOMAIN result.sent :
        /\ event' = result.sent[i]
        /\ result' = Begin(result.sent[i], state_events, config).result
        /\ pc' = Begin(result.sent[i], state_events, config).pc
    /\ parent' = [event |-> event, result |-> result]
    /\ UNCHANGED <<todo, config, state_events>>

\* state[(type, state_key)] = event
ApplyEvent(st, e) ==
    [k \in (DOMAIN st) \cup {<<e.type, e.state_key>>} |->
        IF k = <<e.type, e.state_key>> THEN e ELSE st[k]]

\* The marker of a room frozen by user u.
build_frozen_event(u, frozen) ==
    StateEvent(FROZEN_STATE_TYPE, "", u, PyDict([frozen |-> PyBool(frozen)]))

\* A frozen marker by the sender of the call is put into the state, and an
\* event the call sent is then checked against that state.
ResubmitFrozen ==
    /\ pc = "done"
    /\ parent = NoCall
    /\ event.type = FROZEN_STATE_TYPE
    /\ state_events' = ApplyEvent(state_events, build_frozen_event(event.sender, TRUE))
    /\ \E i \in DOMAIN result.sent :
        /\ event' = result.sent[i]
        /\ result' = Begin(result.sent[i], state_events', config).result
        /\ pc' = Begin(result.sent[i], state_events', config).pc
    /\ parent' = [event |-> event, result |-> result, stored |-> FROZEN_STATE_TYPE]
    /\ UNCHANGED <<todo, config>>

Next ==
    CheckEventAllowed \/ Resume \/ PowerLevelsReplaced \/ ResubmitSent \/ ResubmitFrozen

Spec == Init /\ [][Next]_vars

----------------------------------------------------------------------------
(* The host handles what a call sent: create_and_send_event_into_room      *)
(* hands every event the callback sends back to the callback, with the     *)
(* room's state as it is at that moment, and puts it into the state when   *)
(* it is allowed.  The call that sent the event waits above the call that  *)
(* checks it, so a call can set off further calls.                         *)

Handling == "handling"

\* How long a chain of sent events the model follows.
MaxChain == 4

\* How many calls lie above a call whose parent is p.
RECURSIVE ChainDepth(_)
ChainDepth(p) == IF "up" \in DOMAIN p THEN 1 + ChainDepth(p.up) ELSE 0

\* The events the call sent that the host has not handled yet.
Unhandled == IF pc = "done" THEN result.sent ELSE todo

\* The state once the host has dealt with event e, whose check gave r: a
\* state event that was allowed is in the state.
Stored(e, r, st) ==
    IF r.raised = NoException /\ r.allowed /\ is_state(e) THEN ApplyEvent(st, e) ELSE st

\* The host hands the next event the call sent to the callback; the call
\* that sent it is kept above.
HandleSent ==
    /\ pc \in {"done", Handling}
    /\ Unhandled # <<>>
    /\ ChainDepth(parent) < MaxChain
    /\ parent' = [event |-> event, result |-> result, todo |-> Tail(Unhandled),
                  up |-> parent]
    /\ event' = Head(Unhandled)
    /\ result' = Begin(Head(Unhandled), state_events, config).result
    /\ pc' = Begin(Head(Unhandled), state_events, config).pc
    /\ todo' = <<>>
    /\ UNCHANGED <<config, state_events>>

\* The check of a sent event has ended and so has the handling of what it
\* sent: the event is put into the state when it was allowed, and the host
\* goes back to the call that sent it.
StoreSent ==
    /\ pc \in {"done", Handling}
    /\ Unhandled = <<>>
    /\ "up" \in DOMAIN parent
    /\ state_events' = Stored(event, result, state_events)
    /\ event' = parent.event
    /\ result' = parent.result
    /\ todo' = parent.todo
    /\ parent' = parent.up
    /\ pc' = Handling
    /\ UNCHANGED config

\* The host has handled everything the call on the candidate sent: the
\* candidate is put into the state when the call allowed it.
Settle ==
    /\ pc \in {"done", Handling}
    /\ Unhandled = <<>>
    /\ "up" \notin DOMAIN parent
    /\ state_events' = Stored(event, result, state_events)
    /\ parent' = [event |-> event, result |-> result]
    /\ pc' = "idle"
    /\ todo' = <<>>
    /\ UNCHANGED <<config, event, result>>

\* The same, the host keeping nothing of the call: it is ready for the next
\* candidate.
ApplyCandidate ==
    /\ pc \in {"done", Handling}
    /\ Unhandled = <<>>
    /\ "up" \notin DOMAIN parent
    /\ state_events' = Stored(event, result, state_events)
    /\ event' = NoEvent
    /\ result' = NoResult
    /\ pc' = "idle"
    /\ todo' = <<>>
    /\ UNCHANGED <<config, parent>>

----------------------------------------------------------------------------
(* Vocabulary of the claims, stated on the call's inputs and outputs.      *)

Returned == pc = "done" /\ result.raised = NoException

\* DENY: (False, None) and nothing sent.
Deny ==
    /\ Returned
    /\ ~result.allowed
    /\ result.replacement = None
    /\ result.sent = <<>>

\* ALLOW with no rewrite and nothing sent.
AllowPlain ==
    /\ Returned
    /\ result.allowed
    /\ result.replacement = None
    /\ result.sent = <<>>

HasMarker == <<FROZEN_STATE_TYPE, "">> \in DOMAIN state_events

MarkerValue == state_events[<<FROZEN_STATE_TYPE, "">>].content.v["frozen"]

\* The snapshot's frozen marker has frozen == true.
RoomFrozen == HasMarker /\ MarkerValue = PyBool(TRUE)

HasPowerLevels == <<PowerLevels, "">> \in DOMAIN state_events

CurrentPL == state_events[<<PowerLevels, "">>].content

\* The content has a users field that is a mapping.
HasUsersMap(content) ==
    "users" \in DOMAIN content.v /\ IsMapping(content.v["users"])

\* Two values are the same data: equal as Python compares them, an array
\* being the same as a list and as a tuple.
RECURSIVE SameData(_, _)
SameData(a, b) ==
    IF (IsSeq(a) /\ IsSeq(b)) \/ (IsMapping(a) /\ IsMapping(b))
        THEN /\ DOMAIN a.v = DOMAIN b.v
             /\ \A k \in DOMAIN a.v : SameData(a.v[k], b.v[k])
        ELSE PyEq(a, b)

\* The candidate is a frozen-marker state event.
MarkerCandidate == event.type = FROZEN_STATE_TYPE /\ "state_key" \in DOMAIN event

\* The candidate asks for the boolean value b.
Requests(b) ==
    /\ MarkerCandidate
    /\ "frozen" \in DOMAIN event.content.v
    /\ event.content.v["frozen"] = PyBool(b)

SelfLeaveCandidate ==
    /\ event.type = Member
    /\ event.content.v["membership"] = PyStr(LEAVE)
    /\ event.state_key = event.sender

KickCandidate ==
    /\ event.type = Member
    /\ event.content.v["membership"] = PyStr(LEAVE)
    /\ event.state_key # event.sender

SenderBlacklisted == from_string(event.sender).domain \in config.unfreeze_blacklist

SenderLocal == from_string(event.sender).domain = server_name

\* The candidate changes the room's frozen value to b: the room has no marker,
\* or one whose value differs from b (as Python compares them, 1 being True).
RealTransition(b) ==
    /\ Requests(b)
    /\ ~SenderBlacklisted \/ b
    /\ ~HasMarker \/ ~PyEq(MarkerValue, PyBool(b))

SentOfType(type) == {i \in DOMAIN result.sent : result.sent[i].type = type}

----------------------------------------------------------------------------
(* C1 *)

\* C1 (as claimed): whenever the room is frozen, every candidate that is
\* not a frozen-marker state event, not a self-leave and not a power-levels
\* event the gate recognizes as the unfreeze update is DENY, with no rewrite
\* and no event sent.
C1_FrozenGateDenies ==
    (/\ pc = "done"
     /\ RoomFrozen
     /\ ~MarkerCandidate
     /\ ~SelfLeaveCandidate
     /\ ~(event.type = PowerLevels /\ Returned /\ result.allowed))
    => Deny

----------------------------------------------------------------------------
(* C2 *)

\* C2: while the room is frozen, a self-leave is ALLOW with no rewrite and
\* no event sent, whatever the leaver's power level (the resolver is not
\* run), and a leave whose state key differs from its sender is DENY.
C2_FrozenLeaveAndKick ==
    (pc = "done" /\ RoomFrozen) =>
        /\ SelfLeaveCandidate => AllowPlain
        /\ KickCandidate => Deny

\* The last administrator of a frozen room has left on their own.
C2_Witness ==
    /\ pc = "done"
    /\ RoomFrozen
    /\ SelfLeaveCandidate
    /\ HasPowerLevels
    /\ HasUsersMap(CurrentPL)
    /\ {u \in DOMAIN CurrentPL.v["users"].v :
            CurrentPL.v["users"].v[u].v >= 100} = {event.sender}
    /\ AllowPlain

----------------------------------------------------------------------------
(* C3 *)

\* C3 (as claimed): a marker candidate with frozen == false from a
\* blacklisted domain is DENY for every snapshot, local sender or not, and
\* a marker candidate with frozen == true from such a domain is ALLOW.
\* Stated for the rooms that hold a power levels event, which the handler
\* requires of a room.
C3_BlacklistOnlyUnfreeze ==
    (pc = "done" /\ MarkerCandidate /\ SenderBlacklisted /\ HasPowerLevels) =>
        /\ Requests(FALSE) => Deny
        /\ Requests(TRUE) => (Returned /\ result.allowed)

----------------------------------------------------------------------------
(* C4 *)

\* C4: a frozen-marker state event whose content has no frozen field, or a
\* frozen value that is not a boolean, is DENY with no rewrite and no event
\* sent, for every snapshot and every sender.
C4_MalformedMarkerDenied ==
    (/\ pc = "done"
     /\ MarkerCandidate
     /\ \/ "frozen" \notin DOMAIN event.content.v
        \/ event.content.v["frozen"].py # "bool")
    => Deny

\* An integer frozen value, which Python's == takes for True, was denied.
C4_Witness ==
    /\ pc = "done"
    /\ MarkerCandidate
    /\ "frozen" \in DOMAIN event.content.v
    /\ event.content.v["frozen"] = PyInt(1)
    /\ Deny

----------------------------------------------------------------------------
(* C5 *)

\* The candidate's boolean value is the value of the room's marker.
SameValue ==
    /\ MarkerCandidate
    /\ "frozen" \in DOMAIN event.content.v
    /\ event.content.v["frozen"].py = "bool"
    /\ HasMarker
    /\ MarkerValue = event.content.v["frozen"]

\* C5 (as claimed): a marker candidate whose boolean value equals the
\* room's current frozen value is ALLOW with no rewrite and no event sent,
\* for every sender.
C5_IdempotentForEverySender == (pc = "done" /\ SameValue) => AllowPlain

\* C5 (amended): ... for every sender, except that a candidate with
\* frozen == false from a sender whose domain is blacklisted is DENY.
C5_Idempotent ==
    (pc = "done" /\ SameValue) =>
        IF Requests(FALSE) /\ SenderBlacklisted THEN Deny ELSE AllowPlain

\* A local sender repeated the value of the marker and nothing was sent.
C5_Witness ==
    /\ pc = "done"
    /\ SameValue
    /\ SenderLocal
    /\ ~SenderBlacklisted
    /\ HasPowerLevels
    /\ AllowPlain

----------------------------------------------------------------------------
(* C6, C7 *)

\* The call returned from a real transition to b asked for by a local user.
LocalTransition(b) == Returned /\ RealTransition(b) /\ SenderLocal

\* The content of the power levels event the call sent last.
SentPL == result.sent[Len(result.sent)].content

\* The users entries of the current power levels (none without a users map).
CurrentUsers ==
    IF HasUsersMap(CurrentPL) THEN CurrentPL.v["users"].v ELSE <<>>

\* The current users_default (None when the content has none).
CurrentDefault ==
    IF "users_default" \in DOMAIN CurrentPL.v THEN CurrentPL.v["users_default"] ELSE None

\* Every field but users and users_default is the current one.
OtherFieldsKept ==
    /\ DOMAIN SentPL.v = (DOMAIN CurrentPL.v) \cup {"users", "users_default"}
    /\ \A k \in (DOMAIN CurrentPL.v) \ {"users", "users_default"} :
            SameData(SentPL.v[k], CurrentPL.v[k])

\* C6: on a real freeze transition by a local sender the power levels
\* content sent has users_default == 100, its users map is exactly the
\* current entries whose level is exactly 100, and every other field is the
\* current one.
C6_FreezePowerLevels ==
    LocalTransition(TRUE) =>
        /\ result.sent # <<>>
        /\ result.sent[Len(result.sent)].type = PowerLevels
        /\ {"users", "users_default"} \subseteq DOMAIN SentPL.v
        /\ SentPL.v["users_default"] = PyInt(100)
        /\ SentPL.v["users"] =
             PyDict([u \in {x \in DOMAIN CurrentUsers : CurrentUsers[x] = PyInt(100)}
                        |-> PyInt(100)])
        /\ OtherFieldsKept

\* The freeze dropped the sender's entry, which was above 100, and kept
\* another user's entry at 100.
C6_Witness ==
    /\ LocalTransition(TRUE)
    /\ event.sender \in DOMAIN CurrentUsers
    /\ CurrentUsers[event.sender].v > 100
    /\ \E u \in DOMAIN CurrentUsers : CurrentUsers[u] = PyInt(100)
    /\ DOMAIN SentPL.v["users"].v # {}
    /\ event.sender \notin DOMAIN SentPL.v["users"].v

\* C7: on a real unfreeze transition by a local sender the power levels
\* content sent has users_default == 0 and users[sender] == 100, and every
\* other users entry and every other field is the current one.
C7_UnfreezePowerLevels ==
    LocalTransition(FALSE) =>
        /\ result.sent # <<>>
        /\ result.sent[Len(result.sent)].type = PowerLevels
        /\ {"users", "users_default"} \subseteq DOMAIN SentPL.v
        /\ SentPL.v["users_default"] = PyInt(0)
        /\ SentPL.v["users"] =
             PyDict([u \in (DOMAIN CurrentUsers) \cup {event.sender} |->
                        IF u = event.sender THEN PyInt(100) ELSE CurrentUsers[u]])
        /\ OtherFieldsKept

\* The unfreeze raised its sender from below 100, reset a default of 100 and
\* left another user's entry alone.
C7_Witness ==
    /\ LocalTransition(FALSE)
    /\ RoomFrozen
    /\ event.sender \in DOMAIN CurrentUsers
    /\ CurrentUsers[event.sender].v < 100
    /\ CurrentDefault = PyInt(100)
    /\ \E u \in DOMAIN CurrentUsers : u # event.sender /\ CurrentUsers[u].v > 100
    /\ SentPL.v["users"].v[event.sender] = PyInt(100)

----------------------------------------------------------------------------
(* C8 *)

\* The candidate is the power levels event that a local sender's unfreeze
\* of this frozen room sent.
ResubmittedUnfreezeUpdate ==
    /\ pc = "done"
    /\ parent # NoCall
    /\ "stored" \notin DOMAIN parent
    /\ parent.event.type = FROZEN_STATE_TYPE
    /\ parent.event.content.v["frozen"] = PyBool(FALSE)
    /\ from_string(parent.event.sender).domain = server_name
    /\ event.type = PowerLevels

\* C8 (as claimed): for every snapshot with frozen == true and a power levels event that
\* has a users map, the power levels event sent for a local sender's
\* unfreeze is ALLOW with no rewrite when it is submitted against that same
\* snapshot.
C8_UnfreezeUpdatePassesGate ==
    (ResubmittedUnfreezeUpdate /\ RoomFrozen /\ HasPowerLevels /\ HasUsersMap(CurrentPL))
    => AllowPlain

\* The update of a room frozen with users_default 100, sent for a sender
\* who held less than 100, passed the gate.
C8_Witness ==
    /\ ResubmittedUnfreezeUpdate
    /\ RoomFrozen
    /\ HasPowerLevels
    /\ HasUsersMap(CurrentPL)
    /\ CurrentDefault = PyInt(100)
    /\ parent.event.sender \notin DOMAIN CurrentUsers
    /\ AllowPlain

----------------------------------------------------------------------------
(* C9 *)

\* A power levels candidate is judged by the gate of a frozen room.
GatedPL == pc = "done" /\ RoomFrozen /\ event.type = PowerLevels

OtherKeys(content) == (DOMAIN content.v) \ {"users", "users_default"}

\* (a) of the claim: the candidate's content is the current one on every
\* field other than users and users_default.
OtherFieldsEqual ==
    /\ OtherKeys(event.content) = OtherKeys(CurrentPL)
    /\ \A k \in OtherKeys(CurrentPL) : SameData(event.content.v[k], CurrentPL.v[k])

\* (b) of the claim: the candidate's own users map gives its sender 100.
SenderMadeAdmin ==
    /\ HasUsersMap(event.content)
    /\ event.sender \in DOMAIN event.content.v["users"].v
    /\ PyEq(event.content.v["users"].v[event.sender], PyInt(100))

\* The candidate's own users_default is there and is 0.
DefaultReset ==
    /\ "users_default" \in DOMAIN event.content.v
    /\ PyEq(event.content.v["users_default"], PyInt(0))

\* C9 (as claimed): while the room is frozen a power levels candidate is
\* ALLOW with no rewrite exactly when (a) and (b) hold, users_default being
\* ignored on both sides, and every other power levels candidate is DENY.
\* Stated for a candidate and a current content that both hold a users map.
C9_GateIgnoresBothDefaults ==
    (GatedPL /\ HasPowerLevels /\ HasUsersMap(CurrentPL) /\ HasUsersMap(event.content))
    => IF OtherFieldsEqual /\ SenderMadeAdmin THEN AllowPlain ELSE Deny

\* C9 (amended): while the room is frozen a power levels candidate is ALLOW
\* with no rewrite exactly when the current power levels content has a
\* users entry and (a) the candidate equals it on every field other than
\* users and users_default and the candidate's own users_default is present
\* and equal to 0, only the current users_default being ignored, and (b) the
\* candidate's own users map gives its sender exactly 100.  Every other
\* power levels candidate is refused: DENY, but an exception and no decision
\* when the room has a power levels event and the current content is a
\* frozendict, the candidate has no users map or the current content has no
\* users entry.
C9_GateChecksDefaultReset ==
    GatedPL =>
        IF ~HasPowerLevels THEN Deny
        ELSE IF \/ IsFrozenDict(CurrentPL)
                \/ ~HasUsersMap(event.content)
                \/ "users" \notin DOMAIN CurrentPL.v
            THEN ~Returned /\ result.sent = <<>>
        ELSE IF OtherFieldsEqual /\ DefaultReset /\ SenderMadeAdmin THEN AllowPlain
        ELSE Deny

\* A candidate that made its sender admin and reset the default to 0 was
\* let through a room whose own default is 100.
C9_Witness ==
    /\ GatedPL
    /\ parent = NoCall
    /\ HasPowerLevels
    /\ HasUsersMap(CurrentPL)
    /\ CurrentDefault = PyInt(100)
    /\ OtherFieldsEqual /\ DefaultReset /\ SenderMadeAdmin
    /\ AllowPlain

----------------------------------------------------------------------------
(* C10 *)

NoJoinRuleOrPublic ==
    \/ <<JoinRules, "">> \notin DOMAIN state_events
    \/ /\ "join_rule" \in DOMAIN state_events[<<JoinRules, "">>].content.v
       /\ state_events[<<JoinRules, "">>].content.v["join_rule"] = PyStr("public")

InviteOnly ==
    [room_id |-> event.room_id, sender |-> event.sender, type |-> JoinRules,
     state_key |-> "", content |-> PyDict([join_rule |-> PyStr("invite")])]

\* C10: on a real freeze transition by a local sender a join rules event
\* with join_rule "invite" (same sender, same room, empty state key) is sent,
\* and sent before the power levels event, exactly when the current join
\* rules event is absent or has join_rule "public"; on an unfreeze, or when
\* the join rule has any other value, no join rules event is sent.
C10_JoinRulesOnFreeze ==
    pc = "done" =>
        IF RealTransition(TRUE) /\ SenderLocal /\ NoJoinRuleOrPublic
            THEN /\ SentOfType(JoinRules) = {1}
                 /\ result.sent[1] = InviteOnly
                 /\ \A i \in SentOfType(PowerLevels) : i > 1
            ELSE SentOfType(JoinRules) = {}

\* A room with no join rules event was frozen: invite-only first, then the
\* power levels.
C10_Witness ==
    /\ LocalTransition(TRUE)
    /\ <<JoinRules, "">> \notin DOMAIN state_events
    /\ Len(result.sent) = 2
    /\ result.sent[1] = InviteOnly
    /\ result.sent[2].type = PowerLevels

----------------------------------------------------------------------------
(* Rooms with members: every user of the room holds a level or none and    *)
(* has joined, been invited by another user, left or never been there.     *)

Members == {Alice, Mod, EvilAlice}

\* Who invited user u.
Inviter(u) == IF u = Alice THEN Mod ELSE Alice

\* The ways the membership entry of user u can be.
MemberStates(u) ==
    {{}, {StateEvent(Member, u, u, MemberContent(JOIN))},
         {StateEvent(Member, u, Inviter(u), MemberContent(INVITE))},
         {StateEvent(Member, u, u, MemberContent(LEAVE))}}

\* Well-formed power levels: a users map and users_default missing, between
\* the levels of the map or at the level of an administrator.
RoomPowerLevels ==
    {StateEvent(PowerLevels, "", Alice, PyDict([users |-> m] @@ d @@ [ban |-> PyInt(50)])) :
        m \in Dicts(Members, {PyInt(l) : l \in Levels}),
        d \in {<<>>, [users_default |-> PyInt(50)], [users_default |-> PyInt(100)]}}

\* The marker and the join rules of an unfrozen room.
UnfrozenSettings ==
    {{},
     {StateEvent(JoinRules, "", Alice, PyDict([join_rule |-> PyStr("invite")]))},
     {StateEvent(FROZEN_STATE_TYPE, "", Alice, PyDict([frozen |-> PyBool(FALSE)])),
      StateEvent(JoinRules, "", Alice, PyDict([join_rule |-> PyStr("public")]))}}

\* Power levels as a host with frozen events holds them: a frozendict
\* whose users map is a frozendict or, frozen at the top only, a dict; Alice
\* is the administrator.
ImmutableRoomPowerLevels ==
    {StateEvent(PowerLevels, "", Alice,
                PyFrozenDict([users |-> [py |-> k, v |-> m]] @@ d @@ [ban |-> PyInt(50)])) :
        k \in {"frozendict", "dict"},
        m \in {(Alice :> PyInt(100)), (Alice :> PyInt(100)) @@ (Mod :> PyInt(50))},
        d \in {<<>>, [users_default |-> PyInt(100)]}}

Rooms ==
    {StateMap(g \cup {p} \cup a \cup m \cup x) :
        g \in UnfrozenSettings, p \in RoomPowerLevels \cup ImmutableRoomPowerLevels,
        a \in MemberStates(Alice),
        m \in MemberStates(Mod), x \in MemberStates(EvilAlice)}

\* Candidates sent to a room with members.
LeaveCandidates ==
    {StateEvent(Member, u, u, MemberContent(LEAVE)) : u \in Members}

KickCandidates == {StateEvent(Member, Mod, Alice, MemberContent(LEAVE))}

FreezeCandidates ==
    {StateEvent(FROZEN_STATE_TYPE, "", s, PyDict([frozen |-> PyBool(b)])) :
        s \in Senders, b \in BOOLEAN}

RoomCandidates ==
    LeaveCandidates \cup KickCandidates \cup FreezeCandidates
    \cup {StateEvent(Member, Mod, Mod, MemberContent(JOIN)),
          NonStateEvent(Message, Alice, PyDict([body |-> PyStr("hello world")]))}

----------------------------------------------------------------------------
(* The room after an event when nothing else happens in between: the host *)
(* checks every event, the ones the callback sends included, before it     *)
(* puts it into the room's state.                                          *)

RECURSIVE Admit(_, _, _)
RECURSIVE AdmitAll(_, _, _)

\* The state after the events of `sent` were handled one after the other.
AdmitAll(sent, st, cfg) ==
    IF sent = <<>> THEN st
    ELSE AdmitAll(Tail(sent), Admit(Head(sent), st, cfg), cfg)

\* The state after event e was handled: the events its check sent come
\* first, then e itself when it is a state event and was allowed.
Admit(e, st, cfg) ==
    LET r == check_event_allowed(e, st, cfg)
        after == AdmitAll(r.sent, st, cfg)
    IN  Stored(e, r, after)

----------------------------------------------------------------------------
(* One call of check_event_allowed on a room with members, with the        *)
(* promotion of moderators configured or not.                              *)

InitRoom ==
    /\ config \in {[unfreeze_blacklist |-> {"evil.com"}, promote_moderators |-> b] :
                        b \in BOOLEAN}
    /\ state_events \in Rooms
    /\ event = NoEvent
    /\ result = NoResult
    /\ parent = NoCall
    /\ pc = "idle"
    /\ todo = <<>>

CheckRoomEvent ==
    /\ pc = "idle"
    /\ \E e \in RoomCandidates :
        /\ event' = e
        /\ result' = Begin(e, state_events, config).result
        /\ pc' = Begin(e, state_events, config).pc
    /\ UNCHANGED <<todo, config, state_events, parent>>

NextRoom == CheckRoomEvent \/ Resume \/ PowerLevelsReplaced

SpecRoom == InitRoom /\ [][NextRoom]_vars

----------------------------------------------------------------------------
(* C11 *)

\* The call returned from a real transition asked for by a local user.
LocalTransitionDone == LocalTransition(TRUE) \/ LocalTransition(FALSE)

\* The dict form of the candidate, a state event: its five fields, empty
\* signatures and empty unsigned data.
CandidateDict ==
    [type |-> event.type, state_key |-> event.state_key, sender |-> event.sender,
     room_id |-> event.room_id, content |-> event.content,
     signatures |-> EmptyDict, unsigned |-> EmptyDict]

\* C11: a call that returns carries a rewrite exactly when it performed a
\* real transition for a local sender, and then it has sent the power levels
\* event and the rewrite is the candidate's own dict form; every other ALLOW
\* and every DENY carries no rewrite.
C11_RewriteOnlyOnTransition ==
    (pc = "done" /\ Returned) =>
        IF LocalTransitionDone
            THEN /\ result.allowed
                 /\ result.replacement = CandidateDict
                 /\ result.sent # <<>>
                 /\ result.sent[Len(result.sent)].type = PowerLevels
            ELSE result.replacement = None

\* A local unfreeze of a frozen room returned the marker itself as rewrite.
C11_Witness ==
    /\ LocalTransition(FALSE)
    /\ RoomFrozen
    /\ result.allowed
    /\ result.replacement = CandidateDict
    /\ result.sent[Len(result.sent)].type = PowerLevels

----------------------------------------------------------------------------
(* Vocabulary of the claims about leaves. *)

\* ALLOW with no rewrite, whatever was sent.
AllowNoRewrite == Returned /\ result.allowed /\ result.replacement = None

\* User u has joined the room of the snapshot or is invited to it.
Occupant(u) == get_membership(u, state_events) \in {JOIN, INVITE}

\* The users map of the snapshot gives user u a level of 100 or more.
ExplicitAdmin(u) ==
    /\ HasPowerLevels
    /\ u \in DOMAIN CurrentUsers
    /\ CurrentUsers[u].v >= 100

\* The candidate is the self-leave of the room's last administrator: no
\* other user with 100 or more has joined or is invited.
LastAdminLeaves ==
    /\ pc = "done"
    /\ SelfLeaveCandidate
    /\ ExplicitAdmin(event.sender)
    /\ \A u \in UserIdUniverse \ {event.sender} : ~(ExplicitAdmin(u) /\ Occupant(u))

\* The marker the resolver sends for the candidate.
FreezeMarker ==
    [room_id |-> event.room_id, sender |-> event.sender, type |-> FROZEN_STATE_TYPE,
     state_key |-> "", content |-> PyDict([frozen |-> PyBool(TRUE)])]

----------------------------------------------------------------------------
(* C12 *)

\* C12 (as claimed): in an unfrozen room with promotion disabled, the self-leave of the
\* last administrator sends exactly one event, the marker {frozen: true}
\* with the leaver as sender, the same room and the empty state key, and no
\* power levels event; the leave is ALLOW with no rewrite.
C12_LastAdminLeaveFreezes ==
    (LastAdminLeaves /\ ~RoomFrozen /\ ~config.promote_moderators) =>
        /\ AllowNoRewrite
        /\ result.sent = <<FreezeMarker>>

----------------------------------------------------------------------------
(* C13 *)

\* The level users_default stands for (0 when the content has none).
DefaultLevel ==
    IF "users_default" \in DOMAIN CurrentPL.v THEN CurrentPL.v["users_default"].v ELSE 0

\* The resolver answered a self-leave in an unfrozen room with a power
\* levels event.
PromotionSent ==
    /\ pc = "done"
    /\ SelfLeaveCandidate
    /\ ~RoomFrozen
    /\ config.promote_moderators
    /\ Len(result.sent) = 1
    /\ result.sent[1].type = PowerLevels

\* The users map of the power levels event the resolver sent.
PromotedUsers == result.sent[1].content.v["users"].v

\* The users whose level is not the same in the sent event as in the room.
LevelChanged ==
    {u \in (DOMAIN CurrentUsers) \cup (DOMAIN PromotedUsers) :
        \/ u \notin DOMAIN CurrentUsers
        \/ u \notin DOMAIN PromotedUsers
        \/ PromotedUsers[u] # CurrentUsers[u]}

\* The entries other than the leaver's that lie above users_default and
\* belong to a user who has joined or is invited.
Successors ==
    {u \in (DOMAIN CurrentUsers) \ {event.sender} :
        CurrentUsers[u].v > DefaultLevel /\ Occupant(u)}

\* The occupants of the highest occupied tier.
HighestOccupiedTier ==
    {u \in Successors : \A w \in Successors : CurrentUsers[w].v <= CurrentUsers[u].v}

\* C13 (as claimed): with promotion enabled, the users whose level differs
\* between the power levels event the resolver sent and the current power
\* levels are exactly the occupants of the highest occupied tier; everyone
\* else keeps their level.
C13_PromotedAreHighestTier == PromotionSent => LevelChanged = HighestOccupiedTier

----------------------------------------------------------------------------
(* C14 *)

\* C14 (as claimed): with promotion enabled, the leave of the last
\* administrator of an unfrozen room sends exactly one event: a power levels
\* event when at least one user qualifies for promotion, the marker
\* {frozen: true} when no user does.
C14_OneCompensatingEvent ==
    (LastAdminLeaves /\ ~RoomFrozen /\ config.promote_moderators) =>
        /\ Len(result.sent) = 1
        /\ IF HighestOccupiedTier # {}
              THEN result.sent[1].type = PowerLevels
              ELSE result.sent[1] = FreezeMarker

----------------------------------------------------------------------------
(* C15 *)

\* C15 (as claimed): every promoted user receives, in the power levels
\* event sent, the leaver's former level, which is exactly 100.
C15_PromotedToHundred ==
    PromotionSent =>
        \A u \in HighestOccupiedTier : PromotedUsers[u] = PyInt(100)

\* C15 (amended): every promoted user receives, in the power levels event
\* sent, the level the leaving administrator holds in the current users
\* map, which is 100 or more (exactly 100 only when the leaver holds 100).
C15_PromotedToLeaverLevel ==
    PromotionSent =>
        /\ event.sender \in DOMAIN CurrentUsers
        /\ CurrentUsers[event.sender].v >= 100
        /\ HighestOccupiedTier # {}
        /\ \A u \in HighestOccupiedTier :
                /\ u \in DOMAIN PromotedUsers
                /\ PromotedUsers[u] = CurrentUsers[event.sender]

\* A user at 50 was promoted to the 150 of the last administrator while a
\* user at 100 who had left kept their level.
C15_Witness ==
    /\ PromotionSent
    /\ LastAdminLeaves
    /\ CurrentUsers[event.sender] = PyInt(150)
    /\ \E u \in HighestOccupiedTier :
            CurrentUsers[u] = PyInt(50) /\ PromotedUsers[u] = PyInt(150)
    /\ \E w \in DOMAIN CurrentUsers :
            /\ w # event.sender
            /\ CurrentUsers[w] = PyInt(100)
            /\ ~Occupant(w)
            /\ PromotedUsers[w] = PyInt(100)

----------------------------------------------------------------------------
(* C16 *)

\* The room once the candidate, the events its check sent and the events
\* their checks sent have been handled, in the order they were sent.
RoomAfter == Admit(event, state_events, config)

\* The frozen marker of state st is true.
FrozenIn(st) ==
    /\ <<FROZEN_STATE_TYPE, "">> \in DOMAIN st
    /\ st[<<FROZEN_STATE_TYPE, "">>].content = PyDict([frozen |-> PyBool(TRUE)])

\* The power levels of state st are those of a room frozen from the
\* snapshot: users_default 100 and the entries that were exactly 100.
FrozenLevelsIn(st) ==
    /\ <<PowerLevels, "">> \in DOMAIN st
    /\ {"users", "users_default"} \subseteq DOMAIN st[<<PowerLevels, "">>].content.v
    /\ st[<<PowerLevels, "">>].content.v["users_default"] = PyInt(100)
    /\ st[<<PowerLevels, "">>].content.v["users"] =
         PyDict([u \in {x \in DOMAIN CurrentUsers : CurrentUsers[x] = PyInt(100)}
                    |-> PyInt(100)])

\* State st has a join rule and it is not "public".
NotPublicIn(st) ==
    /\ <<JoinRules, "">> \in DOMAIN st
    /\ "join_rule" \in DOMAIN st[<<JoinRules, "">>].content.v
    /\ st[<<JoinRules, "">>].content.v["join_rule"] # PyStr("public")

\* C16 (as claimed): with promotion disabled, handling the self-leave of a
\* local last administrator of an unfrozen room, the marker the resolver
\* sends and the events the marker's check sends ends in a room with
\* frozen == true, users_default == 100, a users map of the entries that
\* were exactly 100, and a join rule that is not "public".
C16_LeaveEndsFrozen ==
    (LastAdminLeaves /\ ~RoomFrozen /\ ~config.promote_moderators /\ SenderLocal) =>
        /\ FrozenIn(RoomAfter)
        /\ FrozenLevelsIn(RoomAfter)
        /\ NotPublicIn(RoomAfter)

----------------------------------------------------------------------------
(* A room that is frozen and unfrozen: marker candidates are checked one   *)
(* after the other, each against the state the earlier ones left.          *)

LocalUsers == {Alice, Mod}

\* Unfrozen rooms whose power levels hold any entries for the local users,
\* or no users map at all.
RoundTripRooms ==
    {StateMap(m \cup j \cup {StateEvent(PowerLevels, "", Alice, c)} \cup JoinedMembers) :
        m \in {{}, {StateEvent(FROZEN_STATE_TYPE, "", Alice, PyDict([frozen |-> PyBool(FALSE)]))}},
        j \in JoinRulesStates,
        c \in PLContents(LocalUsers, Levels, {0, 100}, {50})}

RoundTripCandidates ==
    {StateEvent(FROZEN_STATE_TYPE, "", s, PyDict([frozen |-> PyBool(b)])) :
        s \in LocalUsers \cup {EvilAlice}, b \in BOOLEAN}

InitRoundTrip ==
    /\ config = [unfreeze_blacklist |-> {"evil.com"}, promote_moderators |-> FALSE]
    /\ state_events \in RoundTripRooms
    /\ event = NoEvent
    /\ result = NoResult
    /\ parent = NoCall
    /\ pc = "idle"
    /\ todo = <<>>

\* The host calls the callback with a marker candidate.
CheckMarker ==
    /\ pc = "idle"
    /\ \E e \in RoundTripCandidates :
        /\ event' = e
        /\ result' = Begin(e, state_events, config).result
        /\ pc' = Begin(e, state_events, config).pc
    /\ UNCHANGED <<todo, config, state_events, parent>>

NextRoundTrip ==
    CheckMarker \/ Resume \/ PowerLevelsReplaced \/ HandleSent \/ StoreSent \/ Settle

SpecRoundTrip == InitRoundTrip /\ [][NextRoundTrip]_vars

----------------------------------------------------------------------------
(* C17 *)

\* The call before this one was a local freeze transition and this one is
\* a local unfreeze transition by the same sender.
FreezeThenUnfreeze ==
    /\ pc = "done"
    /\ parent # NoCall
    /\ "up" \notin DOMAIN parent
    /\ parent.event.type = FROZEN_STATE_TYPE
    /\ parent.event.content = PyDict([frozen |-> PyBool(TRUE)])
    /\ parent.result.raised = NoException
    /\ parent.result.replacement # None
    /\ parent.event.sender = event.sender
    /\ LocalTransition(FALSE)

\* C17: a local freeze transition of an unfrozen room followed at once by
\* a local unfreeze transition by the same user, each with the events it
\* sent applied, ends with users_default == 0 and that user's level == 100,
\* whatever the users map and users_default were before the freeze.
C17_RoundTrip ==
    FreezeThenUnfreeze =>
        /\ <<PowerLevels, "">> \in DOMAIN RoomAfter
        /\ RoomAfter[<<PowerLevels, "">>].content.v["users_default"] = PyInt(0)
        /\ event.sender \in DOMAIN RoomAfter[<<PowerLevels, "">>].content.v["users"].v
        /\ RoomAfter[<<PowerLevels, "">>].content.v["users"].v[event.sender] = PyInt(100)

\* The freeze had pruned the entry of its sender, and the unfreeze gave the
\* sender 100 and reset the default.
C17_Witness ==
    /\ FreezeThenUnfreeze
    /\ RoomFrozen
    /\ CurrentDefault = PyInt(100)
    /\ event.sender \notin DOMAIN CurrentUsers
    /\ RoomAfter[<<PowerLevels, "">>].content.v["users"].v[event.sender] = PyInt(100)
    /\ RoomAfter[<<PowerLevels, "">>].content.v["users_default"] = PyInt(0)

----------------------------------------------------------------------------
(* C18 *)

\* C18 (as claimed): when the snapshot has no frozen marker, or a marker
\* whose frozen value is not true, every candidate that is not a
\* frozen-marker state event is ALLOW with no rewrite; so is every leave,
\* whatever the resolver does or sends for it.  Refuted by the leave of the
\* last administrator of a room whose power levels are a frozendict, with
\* promotion on: the resolver raises TypeError and the call returns nothing.
C18_UnfrozenAllows ==
    (pc = "done" /\ ~RoomFrozen /\ ~MarkerCandidate) => AllowNoRewrite

----------------------------------------------------------------------------
(* Departures: the occupants of a room leave one at a time, and each leave *)
(* and the events it triggers are applied before the next one.             *)

\* User u has joined state st or is invited to it.
OccupantIn(u, st) == get_membership(u, st) \in {JOIN, INVITE}

\* Rooms without a marker in which a user with 100 or more is an occupant.
ManagedRooms ==
    {st \in Rooms :
        /\ <<FROZEN_STATE_TYPE, "">> \notin DOMAIN st
        /\ \E u \in Members :
            /\ OccupantIn(u, st)
            /\ u \in DOMAIN st[<<PowerLevels, "">>].content.v["users"].v
            /\ st[<<PowerLevels, "">>].content.v["users"].v[u].v >= 100}

InitLeaves ==
    /\ config \in {[unfreeze_blacklist |-> {"evil.com"}, promote_moderators |-> b] :
                        b \in BOOLEAN}
    /\ state_events \in ManagedRooms
    /\ event = NoEvent
    /\ result = NoResult
    /\ parent = NoCall
    /\ pc = "idle"
    /\ todo = <<>>

\* An occupant leaves on their own.
CheckLeave ==
    /\ pc = "idle"
    /\ \E e \in LeaveCandidates :
        /\ OccupantIn(e.sender, state_events)
        /\ event' = e
        /\ result' = Begin(e, state_events, config).result
        /\ pc' = Begin(e, state_events, config).pc
    /\ UNCHANGED <<todo, config, state_events, parent>>

NextLeaves ==
    CheckLeave \/ Resume \/ PowerLevelsReplaced \/ HandleSent \/ StoreSent \/ Settle

SpecLeaves == InitLeaves /\ [][NextLeaves]_vars

----------------------------------------------------------------------------
(* C19 *)

\* The leaver is the last occupant whose explicit level lies above
\* users_default.
LastRankedOccupantLeaves ==
    /\ pc = "done"
    /\ SelfLeaveCandidate
    /\ Occupant(event.sender)
    /\ event.sender \in DOMAIN CurrentUsers
    /\ CurrentUsers[event.sender].v > DefaultLevel
    /\ Successors = {}

\* C19 (as claimed): when occupants leave an unfrozen, managed room one at
\* a time, each leave and the events it triggers being applied before the
\* next, then once the last occupant holding an explicit level above
\* users_default has left, the frozen marker is true, with promotion
\* enabled or disabled.
C19_NeverLeftUnmanaged == LastRankedOccupantLeaves => FrozenIn(RoomAfter)

----------------------------------------------------------------------------
(* C20 *)

\* The candidate asks for a boolean value other than the room's: the value
\* of the marker, and false for a room without marker.
ChangesFrozenValue ==
    \E b \in BOOLEAN :
        /\ Requests(b)
        /\ IF HasMarker THEN ~PyEq(MarkerValue, PyBool(b)) ELSE b

\* C20 (as claimed): a marker candidate from a non-local sender that
\* changes the frozen value is ALLOW with no rewrite and no event is sent.
C20_NonLocalAlwaysAllowed ==
    (pc = "done" /\ MarkerCandidate /\ ~SenderLocal /\ ChangesFrozenValue) => AllowPlain

\* C20 (amended): a marker candidate from a non-local sender that changes
\* the frozen value is ALLOW with no rewrite, unless it asks for
\* frozen == false and the sender's domain is blacklisted, which is DENY;
\* either way no join rules and no power levels event is sent: events are
\* sent only for a marker whose sender is local.
C20_NonLocalSendsNothing ==
    (pc = "done" /\ MarkerCandidate /\ ~SenderLocal) =>
        /\ result.sent = <<>>
        /\ ChangesFrozenValue =>
                IF Requests(FALSE) /\ SenderBlacklisted THEN Deny ELSE AllowPlain

\* A remote user froze a public room that has power levels: nothing was
\* sent for it.
C20_Witness ==
    /\ pc = "done"
    /\ ~SenderLocal
    /\ MarkerCandidate
    /\ Requests(TRUE)
    /\ ChangesFrozenValue
    /\ HasPowerLevels
    /\ <<JoinRules, "">> \in DOMAIN state_events
    /\ NoJoinRuleOrPublic
    /\ AllowPlain

----------------------------------------------------------------------------
(* C21 *)

\* The level the power levels of the snapshot resolve for user u: the
\* explicit users entry, else users_default.
ResolvedLevel(u) ==
    IF u \in DOMAIN CurrentUsers THEN CurrentUsers[u].v ELSE DefaultLevel

\* Another user whose resolved level is 100 or more has joined or is invited.
OtherResolvedAdminPresent ==
    \E u \in UserIdUniverse \ {event.sender} :
        ResolvedLevel(u) >= 100 /\ Occupant(u)

\* C21 (as claimed): in an unfrozen room with well-formed power levels, a
\* self-leave makes the resolver send an event exactly when the leaver's
\* resolved level is 100 or more and no other user whose resolved level is
\* 100 or more has joined or is invited.
C21_CompensatesIffLastAdmin ==
    (/\ pc = "done"
     /\ SelfLeaveCandidate
     /\ ~RoomFrozen
     /\ HasPowerLevels
     /\ HasUsersMap(CurrentPL))
    => (result.sent # <<>>
            <=> (ResolvedLevel(event.sender) >= 100 /\ ~OtherResolvedAdminPresent))

----------------------------------------------------------------------------
(* C22 *)

\* C22 (as claimed): in an unfrozen room a leave whose state key differs
\* from its sender, a kick by the room's only administrator included, never
\* makes the call send a frozen marker or a power levels event.
C22_KickEmitsNothing ==
    (pc = "done" /\ KickCandidate /\ ~RoomFrozen) =>
        /\ SentOfType(FROZEN_STATE_TYPE) = {}
        /\ SentOfType(PowerLevels) = {}

----------------------------------------------------------------------------
(* C23 *)

\* The candidate is a membership LEAVE, a self-leave or a kick.
LeaveCandidate ==
    /\ event.type = Member
    /\ event.content.v["membership"] = PyStr(LEAVE)

\* The snapshot's power levels cannot be used: there is no power levels
\* event, or its content has no users field or one that is not a mapping.
UnusablePowerLevels == ~HasPowerLevels \/ ~HasUsersMap(CurrentPL)

\* C23: in an unfrozen room without usable power levels a membership LEAVE
\* sends no event and is ALLOW with no rewrite.
C23_LeaveWithoutLevelsIsNoop ==
    (pc = "done" /\ ~RoomFrozen /\ LeaveCandidate /\ UnusablePowerLevels) => AllowPlain

\* A local user left a room whose users field is not a mapping.
C23_Witness ==
    /\ pc = "done"
    /\ ~RoomFrozen
    /\ SelfLeaveCandidate
    /\ SenderLocal
    /\ HasPowerLevels
    /\ "users" \in DOMAIN CurrentPL.v
    /\ ~IsMapping(CurrentPL.v["users"])
    /\ AllowPlain

----------------------------------------------------------------------------
(* C24 *)

\* C24 (as claimed): the call returns a decision, and does not raise, when
\* the current power levels content has no users map on a local freeze
\* transition or when a power levels candidate is judged while frozen, and
\* when a power levels candidate judged while frozen has no users map.
C24_MalformedLevelsNeverRaise ==
    (/\ pc = "done"
     /\ \/ /\ RealTransition(TRUE) /\ SenderLocal
           /\ HasPowerLevels /\ ~HasUsersMap(CurrentPL)
        \/ /\ RoomFrozen /\ event.type = PowerLevels
           /\ HasPowerLevels /\ ~HasUsersMap(CurrentPL)
        \/ /\ RoomFrozen /\ event.type = PowerLevels
           /\ ~HasUsersMap(event.content))
    => Returned

----------------------------------------------------------------------------
(* C25 *)

\* C25 (as claimed): in every snapshot with frozen == true and a power
\* levels event, a marker candidate with frozen == false from a sender whose
\* domain is not blacklisted is ALLOW, whatever the sender's level or
\* membership.
C25_FrozenRoomCanBeUnfrozen ==
    (/\ pc = "done"
     /\ RoomFrozen
     /\ HasPowerLevels
     /\ Requests(FALSE)
     /\ ~SenderBlacklisted)
    => (Returned /\ result.allowed)

----------------------------------------------------------------------------
(* C26 *)

\* C26 (as claimed): when the snapshot holds no frozen marker, a marker
\* candidate with frozen == false from a local sender is a no-op: ALLOW with
\* no rewrite and no event sent.  Stated for a sender who is not blacklisted
\* and a room whose power levels have a users map.
C26_UnfreezeWithoutMarkerIsNoop ==
    (/\ pc = "done"
     /\ ~HasMarker
     /\ Requests(FALSE)
     /\ SenderLocal
     /\ ~SenderBlacklisted
     /\ HasPowerLevels
     /\ HasUsersMap(CurrentPL))
    => AllowPlain

----------------------------------------------------------------------------
(* C27 *)

\* C27 (as claimed): when a local sender asks for a real freeze or unfreeze
\* transition and the snapshot has no power levels event, the call fails and
\* has sent no event by then, no join rules event in particular.
C27_NoLevelsFailsBeforeSending ==
    (/\ pc = "done"
     /\ RealTransition(TRUE) \/ RealTransition(FALSE)
     /\ SenderLocal
     /\ ~HasPowerLevels)
    => (~Returned /\ result.sent = <<>>)

----------------------------------------------------------------------------
(* The life of a room: candidates are checked one after the other, and     *)
(* each candidate the callback admits is put into the room's state, after  *)
(* the events its check sent, before the next one is checked.              *)

\* Unfrozen rooms of the local users, who have both joined, with power
\* levels that have a users map.
LifecycleRooms ==
    {StateMap(m \cup j
              \cup {StateEvent(PowerLevels, "", Alice,
                               PyDict([users |-> u] @@ d @@ [ban |-> PyInt(50)]))}
              \cup {StateEvent(Member, x, x, MemberContent(JOIN)) : x \in LocalUsers}) :
        m \in {{}, {StateEvent(FROZEN_STATE_TYPE, "", Alice, PyDict([frozen |-> PyBool(FALSE)]))}},
        j \in {{}} \cup {{StateEvent(JoinRules, "", Alice, PyDict([join_rule |-> PyStr(r)]))} :
                            r \in {"public", "invite"}},
        u \in Dicts(LocalUsers, {PyInt(l) : l \in Levels}),
        d \in {<<>>, [users_default |-> PyInt(0)]}}

\* What the local users send: markers, their own leaves, power levels with
\* a users map, a join rules event and a message.
LifecycleCandidates ==
    {StateEvent(FROZEN_STATE_TYPE, "", s, PyDict([frozen |-> PyBool(b)])) :
        s \in LocalUsers, b \in BOOLEAN}
    \cup {StateEvent(Member, s, s, MemberContent(LEAVE)) : s \in LocalUsers}
    \cup {StateEvent(PowerLevels, "", s, PyDict([users |-> u] @@ d @@ [ban |-> PyInt(50)])) :
            s \in LocalUsers,
            u \in Dicts(LocalUsers, {PyInt(50), PyInt(100)}),
            d \in {<<>>, [users_default |-> PyInt(0)], [users_default |-> PyInt(100)]}}
    \cup {StateEvent(JoinRules, "", Alice, PyDict([join_rule |-> PyStr("public")])),
          NonStateEvent(Message, Alice, PyDict([body |-> PyStr("hello world")]))}

InitLifecycle ==
    /\ config \in {[unfreeze_blacklist |-> {"evil.com"}, promote_moderators |-> b] :
                        b \in BOOLEAN}
    /\ state_events \in LifecycleRooms
    /\ event = NoEvent
    /\ result = NoResult
    /\ parent = NoCall
    /\ pc = "idle"
    /\ todo = <<>>

\* The host calls the callback with a candidate.
CheckCandidate ==
    /\ pc = "idle"
    /\ \E e \in LifecycleCandidates :
        /\ event' = e
        /\ result' = Begin(e, state_events, config).result
        /\ pc' = Begin(e, state_events, config).pc
    /\ UNCHANGED <<todo, config, state_events, parent>>

NextLifecycle ==
    CheckCandidate \/ Resume \/ PowerLevelsReplaced \/ HandleSent \/ StoreSent
    \/ ApplyCandidate

SpecLifecycle == InitLifecycle /\ [][NextLifecycle]_vars

----------------------------------------------------------------------------
(* C28 *)

\* The power levels of the room have users_default == 100 and a users map
\* whose entries are all 100.
LevelsOfFrozenRoom ==
    /\ HasPowerLevels
    /\ "users_default" \in DOMAIN CurrentPL.v
    /\ CurrentPL.v["users_default"] = PyInt(100)
    /\ HasUsersMap(CurrentPL)
    /\ \A u \in DOMAIN CurrentUsers : CurrentUsers[u] = PyInt(100)

\* C28 (as claimed): starting from an unfrozen room and applying, in order,
\* only the candidates the callback admits and the events it sends, every
\* marker being sent by a local user, in every reachable state whose frozen
\* marker is true the power levels have users_default == 100 and every users
\* entry equals 100.
C28_FrozenRoomKeepsFrozenLevels ==
    (pc = "idle" /\ FrozenIn(state_events)) => LevelsOfFrozenRoom

----------------------------------------------------------------------------
(* Chains of events: create_and_send_event_into_room hands every event the *)
(* callback sends back to the callback, with the room's state as it is at  *)
(* that moment, so a call can set off further calls.                       *)

\* The rooms with members, and the frozen form of those that have neither
\* marker nor join rules.
ChainRooms ==
    Rooms \cup
    {ApplyEvent(st, StateEvent(FROZEN_STATE_TYPE, "", Alice, PyDict([frozen |-> PyBool(TRUE)]))) :
        st \in {r \in Rooms : /\ <<FROZEN_STATE_TYPE, "">> \notin DOMAIN r
                              /\ <<JoinRules, "">> \notin DOMAIN r}}

InitChain ==
    /\ config \in {[unfreeze_blacklist |-> {"evil.com"}, promote_moderators |-> b] :
                        b \in BOOLEAN}
    /\ state_events \in ChainRooms
    /\ event = NoEvent
    /\ result = NoResult
    /\ parent = NoCall
    /\ pc = "idle"
    /\ todo = <<>>

NextChain == CheckRoomEvent \/ Resume \/ PowerLevelsReplaced \/ HandleSent \/ StoreSent

SpecChain == InitChain /\ [][NextChain]_vars

----------------------------------------------------------------------------
(* C29 *)

SentTypes == {result.sent[i].type : i \in DOMAIN result.sent}

\* C29: a leave sends only a frozen marker or a power levels event, a marker
\* sends only join rules and power levels events, join rules and power
\* levels events send nothing, and so does every call at the end of a chain
\* of two sent events: no chain of sent events is longer than 2.
C29_ChainsEndAfterTwo ==
    pc = "done" =>
        /\ ChainDepth(parent) <= 2
        /\ ChainDepth(parent) = 2 => result.sent = <<>>
        /\ LeaveCandidate => SentTypes \subseteq {FROZEN_STATE_TYPE, PowerLevels}
        /\ MarkerCandidate => SentTypes \subseteq {JoinRules, PowerLevels}
        /\ event.type \in {JoinRules, PowerLevels} => result.sent = <<>>
        /\ ~LeaveCandidate /\ ~MarkerCandidate => result.sent = <<>>

\* The leave of a last administrator sent a marker, whose check sent a join
\* rules and a power levels event, and the check of the power levels event
\* sent nothing.
C29_Witness ==
    /\ pc = "done"
    /\ ChainDepth(parent) = 2
    /\ parent.up.event.type = Member
    /\ parent.up.event.content.v["membership"] = PyStr(LEAVE)
    /\ parent.event.type = FROZEN_STATE_TYPE
    /\ Len(parent.result.sent) = 2
    /\ event.type = PowerLevels
    /\ AllowPlain

----------------------------------------------------------------------------
(* C30 *)

\* C30 (as claimed): a frozen-marker-typed state event whose state key is
\* not empty, which does not replace the room's frozen flag, never makes a
\* call that returns a decision send a join rules or a power levels event.
C30_OnlyTheFlagCompensates ==
    (Returned /\ MarkerCandidate /\ event.state_key # "") => result.sent = <<>>

============================================================================
